---- MODULE Spec2Model ----
(***************************************************************************)
(* State-machine model of OffPolicyRLAlgorithm                             *)
(* (hbaselines/algorithms/off_policy.py): construction, learn, the rollout *)
(* collector _collect_samples / _collect_sample, the update scheduler      *)
(* _train and the epoch-end phases of learn.                               *)
(***************************************************************************)
EXTENDS Integers, Sequences, FiniteSets, TLC

\* ------------------------------------------------------------------------
\* Bounds of the model.
\* ------------------------------------------------------------------------
MaxCpus == 2
MaxRollout == 4
MaxTrain == 2
MaxFreq == 2
MaxTimesteps == 4
MaxLogInterval == 2
MaxExplore == 2
MaxEnvLen == 3
MaxHorizon == 3
MaxInterval == 2
MaxEpoch == 5
MaxEvalEpisodes == 1
MaxInfos == 4

\* ------------------------------------------------------------------------
\* Program constants.
\* ------------------------------------------------------------------------
\* default of the run_steps parameter of _collect_samples (None)
None == -1
\* maxlen of the episode_rew_history deque
HistoryMaxLen == 100

VARIABLES
    \* configuration: constructor arguments
    num_cpus, nb_rollout_steps, nb_train_steps, actor_update_freq,
    meta_update_freq, goal_conditioned, has_eval_env, nb_eval_episodes,
    \* the attributes of the first training environment that carry a time
    \* horizon (None when the attribute is absent)
    env_horizon, env_max_episode_steps, env_params_horizon,
    \* policy_kwargs["use_fingerprints"]
    use_fingerprints,
    \* the current_context attribute of the scripted environments: "none"
    \* (no such attribute), "fixed" or "moving" (it changes at every step)
    env_ctx,
    \* the length of self.eval_env when it is a list of environments (None
    \* when it is a single environment)
    eval_env_list,
    \* set by __init__: the horizon, and the create_env calls made
    horizon, created,
    \* configuration: arguments of learn
    total_timesteps, log_interval, eval_interval, save_interval,
    initial_exploration_steps,
    \* the scripted training environments: episode length, steps since reset
    env_len, env_t,
    \* attributes of the algorithm object
    obs, obs_fp, episode_step, episode_reward, episodes, total_steps,
    epoch_episode_steps, epoch_episode_rewards, epoch_episodes, epoch,
    episode_rew_history,
    \* locals of learn
    eval_steps_incr, save_steps_incr, cycle, td_map,
    \* locals of _collect_samples and _train
    caller, run_steps, random_actions, n_itr, itr, n_steps, t_train,
    \* control position and the exception that ended the run, if any
    pc, exc,
    \* calls observed at the collaborators (environment pool, policy)
    batch_envs, batch_actions, batch_stores,
    call_env_steps, call_stored, call_ts0,
    n_updates, updates_total, last_update, update_log, collect_calls,
    train_calls,
    log_rows, checkpoints,
    \* calls of _evaluate, and the episodes, the resets and the clear_memory
    \* calls (their env_num argument, None when absent) of the last one
    eval_events, eval_episodes, eval_resets, clear_calls,
    \* the _evaluate calls of the last evaluation event: the position of
    \* their environment in the list (None for the single environment)
    eval_calls,
    \* the is_success entries of the final info of the evaluation episodes
    \* (None when the info has none), and the rows written by _log_eval
    eval_infos, eval_rows

cfgVars == <<num_cpus, nb_rollout_steps, nb_train_steps, actor_update_freq,
             meta_update_freq, goal_conditioned, has_eval_env, env_horizon,
             env_max_episode_steps, env_params_horizon, total_timesteps,
             log_interval, eval_interval, save_interval,
             initial_exploration_steps, env_len, nb_eval_episodes,
             use_fingerprints, env_ctx, eval_env_list>>

ctorVars == <<horizon, created>>

slotVars == <<env_t, obs, obs_fp, episode_step, episode_reward>>

statVars == <<episodes, total_steps, epoch_episode_steps,
              epoch_episode_rewards, epoch_episodes, episode_rew_history>>

learnVars == <<eval_steps_incr, save_steps_incr, cycle, td_map, epoch>>

collectVars == <<caller, run_steps, random_actions, n_itr, itr, n_steps>>

batchLog == <<batch_envs, batch_actions, batch_stores>>

callLog == <<call_env_steps, call_stored, call_ts0, collect_calls>>

trainVars == <<t_train, n_updates, updates_total, last_update, update_log,
              train_calls>>

sinkVars == <<log_rows, checkpoints>>

evalLog == <<eval_events, eval_episodes, eval_resets, clear_calls,
             eval_calls>>

reportVars == <<eval_infos, eval_rows>>

vars == <<cfgVars, ctorVars, slotVars, statVars, learnVars, collectVars,
          batchLog,
          callLog, trainVars, sinkVars, evalLog, reportVars, pc, exc>>

\* ------------------------------------------------------------------------
\* Pure helpers.
\* ------------------------------------------------------------------------
\* math.ceil(a / b) for a >= 0, b >= 1
Ceil(a, b) == (a + b - 1) \div b

\* Python 3 round(a / b) for a >= 0, b >= 1: halves go to the even integer
PyRound(a, b) ==
    LET q == a \div b
        r == a % b
    IN  IF 2 * r < b THEN q
        ELSE IF 2 * r > b THEN q + 1
        ELSE IF q % 2 = 0 THEN q ELSE q + 1

\* run_steps or self.nb_rollout_steps
RunStepsOr(rs, nb) == IF rs = None \/ rs = 0 THEN nb ELSE rs

\* size of batch number i of n (i counted from 0)
BatchSize(i, n, rs, cpus) ==
    IF i < n - 1 THEN cpus ELSE rs - n * (cpus - 1)

\* range(n)
Range(n) == 0 .. (n - 1)

\* mutant: a list that is never trimmed
DequeAppend_unbounded(d, x) == Append(d, x)

\* deque(maxlen=HistoryMaxLen).append(x)
DequeAppend(d, x) ==
    IF Len(d) >= HistoryMaxLen THEN Append(Tail(d), x) ELSE Append(d, x)

\* The scripted environment: the reward of the t-th step of an episode, the
\* observation after it (its step number) and the observation after a reset.
EnvReward(t) == t
EnvDone(t) == t >= env_len

\* the environment's current_context after t steps of an episode (None when
\* it has no such attribute)
EnvContext(t) ==
    IF env_ctx = "none" THEN None ELSE IF env_ctx = "fixed" THEN 0 ELSE t
ResetObs == 0

\* ------------------------------------------------------------------------
\* Initial state: the object as __init__ leaves it, for a configuration cfg.
\* ------------------------------------------------------------------------
NoUpdate == [update_actor |-> FALSE, has_meta |-> FALSE,
             update_meta |-> FALSE, update_meta_actor |-> FALSE]

InitFull(cfgs, infos, ctxs, lists) ==
    \E c \in cfgs :
        /\ eval_infos \in infos
        /\ env_ctx \in ctxs
        /\ eval_env_list \in lists
        /\ eval_calls = <<>>
        /\ eval_rows = <<>>
        /\ num_cpus = c.num_cpus
        /\ nb_rollout_steps = c.nb_rollout_steps
        /\ nb_train_steps = c.nb_train_steps
        /\ actor_update_freq = c.actor_update_freq
        /\ meta_update_freq = c.meta_update_freq
        /\ goal_conditioned = c.goal_conditioned
        /\ has_eval_env = c.has_eval_env
        /\ env_horizon = c.env_horizon
        /\ env_max_episode_steps = c.env_max_episode_steps
        /\ env_params_horizon = c.env_params_horizon
        /\ horizon = None
        /\ created = <<>>
        /\ total_timesteps = c.total_timesteps
        /\ log_interval = c.log_interval
        /\ eval_interval = c.eval_interval
        /\ save_interval = c.save_interval
        /\ initial_exploration_steps = c.initial_exploration_steps
        /\ env_len = c.env_len
        /\ nb_eval_episodes = c.nb_eval_episodes
        /\ env_t = [i \in Range(c.num_cpus) |-> 0]
        /\ obs = [i \in Range(c.num_cpus) |-> ResetObs]
        /\ obs_fp = [i \in Range(c.num_cpus) |-> 0]
        /\ use_fingerprints = c.use_fingerprints
        /\ episode_step = [i \in Range(c.num_cpus) |-> 0]
        /\ episode_reward = [i \in Range(c.num_cpus) |-> 0]
        /\ episodes = 0
        /\ total_steps = 0
        /\ epoch_episode_steps = <<>>
        /\ epoch_episode_rewards = <<>>
        /\ epoch_episodes = 0
        /\ epoch = 0
        /\ episode_rew_history = <<>>
        /\ eval_steps_incr = 0
        /\ save_steps_incr = 0
        /\ cycle = 0
        /\ td_map = "unread"
        /\ caller = "none"
        /\ run_steps = None
        /\ random_actions = FALSE
        /\ n_itr = 0
        /\ itr = 0
        /\ n_steps = 0
        /\ t_train = 0
        /\ pc = "new"
        /\ exc = "none"
        /\ batch_envs = {}
        /\ batch_actions = <<>>
        /\ batch_stores = <<>>
        /\ call_env_steps = 0
        /\ call_stored = 0
        /\ call_ts0 = 0
        /\ n_updates = 0
        /\ updates_total = 0
        /\ last_update = NoUpdate
        /\ update_log = <<>>
        /\ collect_calls = 0
        /\ train_calls = 0
        /\ log_rows = <<>>
        /\ checkpoints = <<>>
        /\ eval_events = 0
        /\ eval_episodes = 0
        /\ eval_resets = 0
        /\ clear_calls = <<>>

\* the same, for environments without a contextual term and a single
\* evaluation environment
InitWith(cfgs, infos) == InitFull(cfgs, infos, {"none"}, {None})

\* ------------------------------------------------------------------------
\* __init__: the num_cpus assertion, the environments, the horizon.
\* ------------------------------------------------------------------------
CpusFit_strict(cpus, nb) == cpus < nb

\* the assertion on num_cpus
CpusFit(cpus, nb) == cpus <= nb

\* the create_env calls of __init__: the evaluation environment, then one
\* training environment per CPU
CreateCalls ==
    <<[evaluate |-> TRUE, env_num |-> 0]>>
        \o [k \in 1 .. num_cpus |-> [evaluate |-> FALSE, env_num |-> k - 1]]

\* the horizon of the first training environment, None when it has none of
\* the three attributes
ResolveHorizon ==
    IF env_horizon # None THEN env_horizon
    ELSE IF env_max_episode_steps # None THEN env_max_episode_steps
    ELSE IF env_params_horizon # None THEN env_params_horizon
    ELSE None

Construct ==
    /\ pc = "new"
    /\ IF ~CpusFit(num_cpus, nb_rollout_steps)
       THEN /\ pc' = "error"
            /\ exc' = "AssertionError"
            /\ UNCHANGED ctorVars
       ELSE /\ created' = CreateCalls
            /\ IF ResolveHorizon = None
               THEN /\ pc' = "error"
                    /\ exc' = "ValueError"
                    /\ horizon' = horizon
               ELSE /\ pc' = "constructed"
                    /\ exc' = exc
                    /\ horizon' = ResolveHorizon
    /\ UNCHANGED <<cfgVars, reportVars, evalLog, slotVars, statVars,
                   learnVars, collectVars,
                   batchLog, callLog, trainVars, sinkVars>>

\* ------------------------------------------------------------------------
\* _collect_samples: entry (the part of the caller's step that makes the call).
\* ------------------------------------------------------------------------
EnterCollect(rs, rnd, who) ==
    /\ run_steps' = RunStepsOr(rs, nb_rollout_steps)
    /\ n_itr' = Ceil(RunStepsOr(rs, nb_rollout_steps), num_cpus)
    /\ itr' = 0
    /\ n_steps' = 0
    /\ random_actions' = rnd
    /\ caller' = who
    /\ batch_envs' = {}
    /\ batch_actions' = <<>>
    /\ batch_stores' = <<>>
    /\ call_env_steps' = 0
    /\ call_stored' = 0
    /\ call_ts0' = total_steps
    /\ collect_calls' = IF who = "cycle" THEN collect_calls + 1
                        ELSE collect_calls
    /\ pc' = "collect"

\* mutant of the warm-up call: the random_actions argument left out
LearnWarmup_policy ==
    /\ pc = "constructed"
    /\ EnterCollect(initial_exploration_steps, FALSE, "warmup")
    /\ UNCHANGED <<cfgVars, ctorVars, reportVars, evalLog, slotVars, statVars,
                   learnVars, trainVars,
                   sinkVars, exc>>

\* learn, up to the warm-up call of _collect_samples
LearnWarmup ==
    /\ pc = "constructed"
    /\ EnterCollect(initial_exploration_steps, TRUE, "warmup")
    /\ UNCHANGED <<cfgVars, ctorVars, reportVars, evalLog, slotVars, statVars,
                   learnVars, trainVars,
                   sinkVars, exc>>

\* ------------------------------------------------------------------------
\* _collect_sample: one step of environment i, as a result record.
\* ------------------------------------------------------------------------
\* add_fingerprint on an observation that carries n fingerprints: one more
\* when enabled, the observation itself otherwise
AddFingerprint(n, enabled) == IF enabled THEN n + 1 ELSE n

\* the step observation is fingerprinted after the step and, on done, a
\* second time after the reset; the reset observation is returned as
\* get_obs gave it
CollectSample(i) ==
    LET t1 == env_t[i] + 1
        fp1 == AddFingerprint(0, use_fingerprints)
    IN  [env_num |-> i,
         reward |-> EnvReward(t1),
         context |-> EnvContext(t1),
         done |-> EnvDone(t1),
         obs |-> t1,
         obs_fp |-> IF EnvDone(t1) THEN AddFingerprint(fp1, use_fingerprints)
                    ELSE fp1,
         reset_obs |-> ResetObs,
         reset_fp |-> 0]

\* the get_action request _collect_sample makes for environment i
ActionRequest(i) ==
    [env_num |-> i, obs |-> obs[i], fp |-> obs_fp[i], steps |-> total_steps,
     context |-> EnvContext(env_t[i]),
     apply_noise |-> TRUE,
     random_actions |-> random_actions]

\* the environment after its step (reset when the step reported done)
EnvAfter(i) == IF EnvDone(env_t[i] + 1) THEN 0 ELSE env_t[i] + 1

IsFinalStep_atHorizon(step, h) == step >= h

\* the is_final_step argument of the store call, from the slot's episode_step
\* as already incremented for the step
IsFinalStep(step, h) == step >= h - 1

StoreCall_resetObs1(s, r) ==
    [obs0 |-> s.obs[r.env_num],
     reward |-> r.reward,
     fp0 |-> s.obs_fp[r.env_num],
     fp1 |-> r.obs_fp,
     obs1 |-> IF r.done THEN r.reset_obs ELSE r.obs,
     terminal1 |-> r.done,
     is_final_step |-> IsFinalStep(s.episode_step[r.env_num] + 1, horizon),
     context0 |-> r.context,
     context1 |-> r.context,
     env_num |-> r.env_num,
     evaluate |-> FALSE]

StoreCall_neverTerminal(s, r) ==
    [obs0 |-> s.obs[r.env_num],
     reward |-> r.reward,
     fp0 |-> s.obs_fp[r.env_num],
     fp1 |-> r.obs_fp,
     obs1 |-> r.obs,
     terminal1 |-> FALSE,
     is_final_step |-> IsFinalStep(s.episode_step[r.env_num] + 1, horizon),
     context0 |-> r.context,
     context1 |-> r.context,
     env_num |-> r.env_num,
     evaluate |-> FALSE]

StoreCall_evaluate(s, r) ==
    [obs0 |-> s.obs[r.env_num],
     reward |-> r.reward,
     fp0 |-> s.obs_fp[r.env_num],
     fp1 |-> r.obs_fp,
     obs1 |-> r.obs,
     terminal1 |-> r.done,
     is_final_step |-> IsFinalStep(s.episode_step[r.env_num] + 1, horizon),
     context0 |-> r.context,
     context1 |-> r.context,
     env_num |-> r.env_num,
     evaluate |-> TRUE]

\* the arguments _collect_samples hands to _store_transition for result r:
\* obs1 is the step's own observation (obs[0] of the pair on done), evaluate
\* is not passed and so takes its default
StoreCall(s, r) ==
    [obs0 |-> s.obs[r.env_num],
     reward |-> r.reward,
     fp0 |-> s.obs_fp[r.env_num],
     fp1 |-> r.obs_fp,
     obs1 |-> r.obs,
     terminal1 |-> r.done,
     is_final_step |-> IsFinalStep(s.episode_step[r.env_num] + 1, horizon),
     context0 |-> r.context,
     context1 |-> r.context,
     env_num |-> r.env_num,
     evaluate |-> FALSE]

\* mutant: the length of a finished episode is not recorded
ApplyResult_noSteps(s, r) ==
    LET num == r.env_num
        step1 == s.episode_step[num] + 1
        rew1 == s.episode_reward[num] + r.reward
        stored == StoreCall(s, r)
    IN  [s EXCEPT
           !.episode_step[num] = IF r.done THEN 0 ELSE step1,
           !.episode_reward[num] = IF r.done THEN 0 ELSE rew1,
           !.stores = Append(@, stored),
           !.obs[num] = IF r.done THEN r.reset_obs ELSE r.obs,
           !.obs_fp[num] = IF r.done THEN r.reset_fp ELSE r.obs_fp,
           !.epoch_episode_rewards = IF r.done THEN Append(@, rew1) ELSE @,
           !.episode_rew_history = IF r.done THEN DequeAppend(@, rew1) ELSE @,
           !.epoch_episodes = IF r.done THEN @ + 1 ELSE @,
           !.episodes = IF r.done THEN @ + 1 ELSE @]

\* the book-keeping of _collect_samples for one result, on the record s of
\* the attributes it changes
ApplyResult(s, r) ==
    LET num == r.env_num
        step1 == s.episode_step[num] + 1
        rew1 == s.episode_reward[num] + r.reward
        stored == StoreCall(s, r)
    IN  [s EXCEPT
           !.episode_step[num] = IF r.done THEN 0 ELSE step1,
           !.episode_reward[num] = IF r.done THEN 0 ELSE rew1,
           !.stores = Append(@, stored),
           !.obs[num] = IF r.done THEN r.reset_obs ELSE r.obs,
           !.obs_fp[num] = IF r.done THEN r.reset_fp ELSE r.obs_fp,
           !.epoch_episode_rewards = IF r.done THEN Append(@, rew1) ELSE @,
           !.episode_rew_history = IF r.done THEN DequeAppend(@, rew1) ELSE @,
           !.epoch_episode_steps = IF r.done THEN Append(@, step1) ELSE @,
           !.epoch_episodes = IF r.done THEN @ + 1 ELSE @,
           !.episodes = IF r.done THEN @ + 1 ELSE @]

RECURSIVE ApplyAll(_, _)
ApplyAll(s, rets) ==
    IF rets = <<>> THEN s
    ELSE ApplyAll(ApplyResult(s, Head(rets)), Tail(rets))

Rets_descending(n) == [k \in 1 .. n |-> CollectSample(n - k)]

\* the results of the comprehension over range(n), in ascending order of
\* environment (empty for n <= 0)
RECURSIVE Rets(_)
Rets(n) == IF n <= 0 THEN <<>> ELSE Append(Rets(n - 1), CollectSample(n - 1))

\* the get_action requests of the comprehension over range(n)
RECURSIVE Requests(_)
Requests(n) ==
    IF n <= 0 THEN <<>> ELSE Append(Requests(n - 1), ActionRequest(n - 1))

\* ------------------------------------------------------------------------
\* _collect_samples: one iteration of its batch loop.
\* ------------------------------------------------------------------------
\* the batch fits the environment list: all steps, then the book-keeping
BatchApplied(ns) ==
    LET rets == Rets(ns)
        s0 == [episode_step |-> episode_step,
               episode_reward |-> episode_reward,
               obs |-> obs,
               obs_fp |-> obs_fp,
               stores |-> <<>>,
               epoch_episode_rewards |-> epoch_episode_rewards,
               episode_rew_history |-> episode_rew_history,
               epoch_episode_steps |-> epoch_episode_steps,
               epoch_episodes |-> epoch_episodes,
               episodes |-> episodes]
        s1 == ApplyAll(s0, rets)
    IN  /\ env_t' = [i \in DOMAIN env_t |->
                        IF i < ns THEN EnvAfter(i) ELSE env_t[i]]
        /\ batch_envs' = Range(ns)
        /\ batch_actions' = Requests(ns)
        /\ total_steps' = total_steps + ns
        /\ episode_step' = s1.episode_step
        /\ episode_reward' = s1.episode_reward
        /\ obs' = s1.obs
        /\ obs_fp' = s1.obs_fp
        /\ batch_stores' = s1.stores
        /\ epoch_episode_rewards' = s1.epoch_episode_rewards
        /\ episode_rew_history' = s1.episode_rew_history
        /\ epoch_episode_steps' = s1.epoch_episode_steps
        /\ epoch_episodes' = s1.epoch_episodes
        /\ episodes' = s1.episodes
        /\ call_env_steps' = call_env_steps + Len(rets)
        /\ call_stored' = call_stored + Len(s1.stores)
        /\ itr' = itr + 1
        /\ UNCHANGED <<pc, exc>>

\* the batch is larger than the environment list: the comprehension steps
\* environments 0 .. num_cpus-1 and self.env[num_cpus] raises IndexError
BatchIndexError(ns) ==
    /\ env_t' = [i \in DOMAIN env_t |-> EnvAfter(i)]
    /\ batch_envs' = Range(num_cpus + 1)
    /\ batch_actions' = Requests(num_cpus)
    /\ batch_stores' = <<>>
    /\ call_env_steps' = call_env_steps + num_cpus
    /\ pc' = "error"
    /\ exc' = "IndexError"
    /\ UNCHANGED <<obs, obs_fp, episode_step, episode_reward, statVars, itr,
                   call_stored>>

CollectBatch ==
    /\ pc = "collect"
    /\ itr < n_itr
    /\ LET ns == BatchSize(itr, n_itr, run_steps, num_cpus)
       IN  /\ n_steps' = ns
           /\ IF ns > num_cpus THEN BatchIndexError(ns) ELSE BatchApplied(ns)
    /\ UNCHANGED <<cfgVars, ctorVars, reportVars, evalLog, learnVars, caller,
                   run_steps, random_actions,
                   n_itr, call_ts0, collect_calls, trainVars, sinkVars>>

\* mutant: the per-slot step counters are reset with the total statistics
WarmupDone_resetSlots ==
    /\ pc = "collect"
    /\ itr >= n_itr
    /\ caller = "warmup"
    /\ episodes' = 0
    /\ total_steps' = 0
    /\ episode_rew_history' = <<>>
    /\ episode_step' = [i \in DOMAIN episode_step |-> 0]
    /\ pc' = "epoch_start"
    /\ UNCHANGED <<cfgVars, ctorVars, reportVars, evalLog, env_t, obs, obs_fp,
                   episode_reward, epoch_episode_steps,
                   epoch_episode_rewards, epoch_episodes, learnVars,
                   collectVars, batchLog, callLog, trainVars, sinkVars, exc>>

\* learn after the warm-up call returned: reset of the total statistics
WarmupDone ==
    /\ pc = "collect"
    /\ itr >= n_itr
    /\ caller = "warmup"
    /\ episodes' = 0
    /\ total_steps' = 0
    /\ episode_rew_history' = <<>>
    /\ pc' = "epoch_start"
    /\ UNCHANGED <<cfgVars, ctorVars, reportVars, evalLog, slotVars,
                   epoch_episode_steps,
                   epoch_episode_rewards, epoch_episodes, learnVars,
                   collectVars, batchLog, callLog, trainVars, sinkVars, exc>>

\* learn at the top of an epoch: reset of the epoch-specific variables
EpochStart ==
    /\ pc = "epoch_start"
    /\ epoch_episodes' = 0
    /\ epoch_episode_steps' = <<>>
    /\ epoch_episode_rewards' = <<>>
    /\ cycle' = 0
    /\ pc' = "cycle_top"
    /\ UNCHANGED <<cfgVars, ctorVars, reportVars, evalLog, slotVars, episodes,
                   total_steps,
                   episode_rew_history, eval_steps_incr, save_steps_incr,
                   td_map, epoch, collectVars, batchLog, callLog, trainVars,
                   sinkVars, exc>>

\* number of cycles of an epoch
NbCycles(li, nb) == PyRound(li, nb)

\* mutants of the termination test: strict, and one step early
BudgetMet_strict(ts, total) == ts > total

BudgetMet_early(ts, total) == ts + 1 >= total

\* the termination test at the top of a cycle
BudgetMet(ts, total) == ts >= total

\* mutant: the statistics are logged after every cycle, inside the for loop
CycleTop_logEachCycle ==
    /\ pc = "cycle_top"
    /\ IF cycle >= 1
       THEN /\ pc' = "log"
            /\ UNCHANGED <<collectVars, batchLog, callLog>>
       ELSE IF BudgetMet(total_steps, total_timesteps)
       THEN /\ pc' = "returned"
            /\ UNCHANGED <<collectVars, batchLog, callLog>>
       ELSE EnterCollect(None, FALSE, "cycle")
    /\ UNCHANGED <<cfgVars, ctorVars, reportVars, evalLog, slotVars, statVars,
                   learnVars, trainVars,
                   sinkVars, exc>>

\* learn at the top of a cycle: end of the for loop, or the termination
\* check, or the call of _collect_samples
CycleTop ==
    /\ pc = "cycle_top"
    /\ IF cycle >= NbCycles(log_interval, nb_rollout_steps)
       THEN /\ pc' = "log"
            /\ UNCHANGED <<collectVars, batchLog, callLog>>
       ELSE IF BudgetMet(total_steps, total_timesteps)
       THEN /\ pc' = "returned"
            /\ UNCHANGED <<collectVars, batchLog, callLog>>
       ELSE EnterCollect(None, FALSE, "cycle")
    /\ UNCHANGED <<cfgVars, ctorVars, reportVars, evalLog, slotVars, statVars,
                   learnVars, trainVars,
                   sinkVars, exc>>

\* mutant: _train entered from inside the batch loop, after the first batch
TrainEnter_early ==
    /\ pc = "collect"
    /\ itr >= 1
    /\ caller = "cycle"
    /\ pc' = "train"
    /\ t_train' = 0
    /\ n_updates' = 0
    /\ train_calls' = train_calls + 1
    /\ UNCHANGED <<cfgVars, ctorVars, reportVars, evalLog, slotVars, statVars,
                   learnVars, collectVars,
                   batchLog, callLog, updates_total, last_update, update_log,
                   sinkVars, exc>>

\* learn after a cycle's _collect_samples returned: entry of _train
TrainEnter ==
    /\ pc = "collect"
    /\ itr >= n_itr
    /\ caller = "cycle"
    /\ pc' = "train"
    /\ t_train' = 0
    /\ n_updates' = 0
    /\ train_calls' = train_calls + 1
    /\ UNCHANGED <<cfgVars, ctorVars, reportVars, evalLog, slotVars, statVars,
                   learnVars, collectVars,
                   batchLog, callLog, updates_total, last_update, update_log,
                   sinkVars, exc>>

\* ------------------------------------------------------------------------
\* _train: the update flags and one iteration of the training loop.
\* ------------------------------------------------------------------------
\* mutant: the actor flag from the training step alone
UpdateActor_local(ts, t, a) == t % a = 0

UpdateActor(ts, t, a) == (ts + t) % a = 0

UpdateMeta(ts, t, m) == (ts + t) % m = 0

\* mutant: the two frequencies added instead of multiplied
UpdateMetaActor_sum(ts, t, m, a) == (ts + t) % (m + a) = 0

UpdateMetaActor_actorOnly(ts, t, m, a) == (ts + t) % a = 0

UpdateMetaActor(ts, t, m, a) == (ts + t) % (m * a) = 0

\* the keyword arguments of policy_tf.update at training step t
UpdateCall(t) ==
    [update_actor |-> UpdateActor(total_steps, t, actor_update_freq),
     has_meta |-> goal_conditioned,
     update_meta |-> goal_conditioned
                     /\ UpdateMeta(total_steps, t, meta_update_freq),
     update_meta_actor |-> goal_conditioned
                           /\ UpdateMetaActor(total_steps, t,
                                  meta_update_freq, actor_update_freq)]

\* mutant: the policy is updated only on the steps that update the actor
TrainStep_actorOnly ==
    /\ pc = "train"
    /\ t_train < nb_train_steps
    /\ IF UpdateCall(t_train).update_actor
       THEN /\ last_update' = UpdateCall(t_train)
            /\ update_log' = Append(update_log, UpdateCall(t_train))
            /\ n_updates' = n_updates + 1
            /\ updates_total' = updates_total + 1
       ELSE UNCHANGED <<last_update, update_log, n_updates, updates_total>>
    /\ t_train' = t_train + 1
    /\ UNCHANGED <<cfgVars, ctorVars, reportVars, evalLog, slotVars, statVars,
                   learnVars, collectVars,
                   batchLog, callLog, train_calls, sinkVars, pc, exc>>

TrainStep ==
    /\ pc = "train"
    /\ t_train < nb_train_steps
    /\ last_update' = UpdateCall(t_train)
    /\ update_log' = Append(update_log, UpdateCall(t_train))
    /\ n_updates' = n_updates + 1
    /\ updates_total' = updates_total + 1
    /\ t_train' = t_train + 1
    /\ UNCHANGED <<cfgVars, ctorVars, reportVars, evalLog, slotVars, statVars,
                   learnVars, collectVars,
                   batchLog, callLog, train_calls, sinkVars, pc, exc>>

\* _train returns: the cycle is over
TrainReturn ==
    /\ pc = "train"
    /\ t_train >= nb_train_steps
    /\ cycle' = cycle + 1
    /\ pc' = "cycle_top"
    /\ UNCHANGED <<cfgVars, ctorVars, reportVars, evalLog, slotVars, statVars,
                   eval_steps_incr,
                   save_steps_incr, td_map, epoch, collectVars, batchLog,
                   callLog, trainVars, sinkVars, exc>>

\* ------------------------------------------------------------------------
\* learn: the phases at the end of an epoch.
\* ------------------------------------------------------------------------
\* mutant: the row carries the epoch counter itself
LogTraining_zeroBased ==
    /\ pc = "log"
    /\ log_rows' = Append(log_rows,
                      [epochs |-> epoch, steps |-> total_steps,
                       episodes |-> epoch_episodes,
                       total_episodes |-> episodes])
    /\ pc' = "eval"
    /\ UNCHANGED <<cfgVars, ctorVars, reportVars, evalLog, slotVars, statVars,
                   learnVars, collectVars,
                   batchLog, callLog, trainVars, checkpoints, exc>>

\* _log_training: one row of the training statistics
LogTraining ==
    /\ pc = "log"
    /\ log_rows' = Append(log_rows,
                      [epochs |-> epoch + 1, steps |-> total_steps,
                       episodes |-> epoch_episodes,
                       total_episodes |-> episodes])
    /\ pc' = "eval"
    /\ UNCHANGED <<cfgVars, ctorVars, reportVars, evalLog, slotVars, statVars,
                   learnVars, collectVars,
                   batchLog, callLog, trainVars, checkpoints, exc>>

IntervalDue_always(ts, incr, interval) == TRUE

\* the threshold test of the evaluation and checkpoint phases
IntervalDue(ts, incr, interval) == (ts - incr) >= interval

EvalAdvance_snap(incr, interval, ts) == ts

EvalAdvance_double(incr, interval, ts) == incr + 2 * interval

\* the evaluation offset after an evaluation event
EvalAdvance(incr, interval, ts) == incr + interval

\* the environments an evaluation event calls _evaluate on, in order: the
\* members of the list, or the single environment
EvalEnvs ==
    IF eval_env_list = None THEN <<None>>
    ELSE [k \in 1 .. eval_env_list |-> k - 1]

\* _evaluate has no episode to run when nb_eval_episodes is 0; otherwise its
\* first episode resets the environment and then reads self._get_obs, which
\* the class does not define
EvaluateRaises == nb_eval_episodes >= 1

\* the clear_memory calls of _evaluate before its first episode: one per
\* training slot for a goal-conditioned policy
ClearBefore ==
    IF goal_conditioned THEN [k \in 1 .. num_cpus |-> k - 1] ELSE <<>>

\* the clear_memory call of _evaluate after its last episode, made without
\* an env_num
ClearAfter == IF goal_conditioned THEN <<None>> ELSE <<>>

Successes_all(infos) ==
    [k \in DOMAIN infos |-> IF infos[k] = None THEN 0 ELSE infos[k]]

\* the success list _evaluate builds from the final info of its episodes:
\* an entry per episode whose is_success is not None
RECURSIVE Successes(_)
Successes(infos) ==
    IF infos = <<>> THEN <<>>
    ELSE IF Head(infos) = None THEN Successes(Tail(infos))
    ELSE <<Head(infos)>> \o Successes(Tail(infos))

RECURSIVE SeqSum(_)
SeqSum(q) == IF q = <<>> THEN 0 ELSE Head(q) + SeqSum(Tail(q))

\* np.mean(suc) as the fraction num / den, and 0 for an empty list
SuccessRate(suc) ==
    IF Len(suc) > 0 THEN [num |-> SeqSum(suc), den |-> Len(suc)]
    ELSE [num |-> 0, den |-> 1]

\* the row _log_eval writes for the episodes with final infos `infos`
LogEval(infos) ==
    [total_step |-> total_steps, episodes |-> Len(infos),
     success_rate |-> SuccessRate(Successes(infos))]

\* _log_eval on the outcome of the evaluation episodes eval_infos
LogEvalCall ==
    /\ pc = "new"
    /\ eval_rows = <<>>
    /\ eval_rows' = <<LogEval(eval_infos)>>
    /\ UNCHANGED <<cfgVars, ctorVars, slotVars, statVars, learnVars,
                   collectVars,
                   batchLog, callLog, trainVars, sinkVars, evalLog,
                   eval_infos, pc, exc>>

\* mutant: the evaluation episodes are run through training slot 0, whose
\* observation and step counter they leave reset
Evaluate_onSlot0 ==
    /\ pc = "eval"
    /\ IF has_eval_env
          /\ IntervalDue(total_steps, eval_steps_incr, eval_interval)
       THEN /\ eval_steps_incr' =
                  EvalAdvance(eval_steps_incr, eval_interval, total_steps)
            /\ eval_events' = eval_events + 1
            /\ eval_episodes' = 0
            /\ obs' = [obs EXCEPT ![0] = ResetObs]
            /\ episode_step' = [episode_step EXCEPT ![0] = 0]
            /\ IF EvaluateRaises /\ EvalEnvs # <<>>
               THEN /\ eval_calls' = <<Head(EvalEnvs)>>
                    /\ eval_resets' = 1
                    /\ clear_calls' = ClearBefore
                    /\ eval_rows' = eval_rows
                    /\ pc' = "error"
                    /\ exc' = "AttributeError"
               ELSE /\ eval_calls' = EvalEnvs
                    /\ eval_resets' = 0
                    /\ clear_calls' = IF EvalEnvs = <<>> THEN <<>>
                                      ELSE ClearBefore \o ClearAfter
                    /\ eval_rows' = Append(eval_rows, LogEval(<<>>))
                    /\ pc' = "summary"
                    /\ exc' = exc
       ELSE /\ pc' = "summary"
            /\ UNCHANGED <<eval_steps_incr, exc, evalLog, eval_rows, obs,
                           episode_step>>
    /\ UNCHANGED <<cfgVars, ctorVars, eval_infos, env_t, obs_fp,
                   episode_reward, statVars,
                   save_steps_incr, cycle,
                   td_map, epoch, collectVars, batchLog, callLog, trainVars,
                   sinkVars>>

\* the evaluation phase: when due, the threshold advances and _evaluate is
\* called on the evaluation environment, or on each one of the list in
\* turn; the first call that raises ends the run
Evaluate ==
    /\ pc = "eval"
    /\ IF has_eval_env
          /\ IntervalDue(total_steps, eval_steps_incr, eval_interval)
       THEN /\ eval_steps_incr' =
                  EvalAdvance(eval_steps_incr, eval_interval, total_steps)
            /\ eval_events' = eval_events + 1
            /\ eval_episodes' = 0
            /\ IF EvaluateRaises /\ EvalEnvs # <<>>
               THEN /\ eval_calls' = <<Head(EvalEnvs)>>
                    /\ eval_resets' = 1
                    /\ clear_calls' = ClearBefore
                    /\ eval_rows' = eval_rows
                    /\ pc' = "error"
                    /\ exc' = "AttributeError"
               ELSE /\ eval_calls' = EvalEnvs
                    /\ eval_resets' = 0
                    /\ clear_calls' = IF EvalEnvs = <<>> THEN <<>>
                                      ELSE ClearBefore \o ClearAfter
                    /\ eval_rows' = Append(eval_rows, LogEval(<<>>))
                    /\ pc' = "summary"
                    /\ exc' = exc
       ELSE /\ pc' = "summary"
            /\ UNCHANGED <<eval_steps_incr, exc, evalLog, eval_rows>>
    /\ UNCHANGED <<cfgVars, ctorVars, eval_infos, slotVars, statVars,
                   save_steps_incr, cycle,
                   td_map, epoch, collectVars, batchLog, callLog, trainVars,
                   sinkVars>>

\* the summary phase: policy_tf.get_td_map() is the policy's answer; an empty
\* map leaves the epoch loop
Summary ==
    /\ pc = "summary"
    /\ \E m \in {"empty", "full"} :
          /\ td_map' = m
          /\ pc' = IF m = "empty" THEN "broke" ELSE "save"
    /\ UNCHANGED <<cfgVars, ctorVars, reportVars, evalLog, slotVars, statVars,
                   eval_steps_incr,
                   save_steps_incr, cycle, epoch, collectVars, batchLog,
                   callLog, trainVars, sinkVars, exc>>

\* the checkpoint phase
SaveAdvance_snap(incr, interval, ts) == ts

\* the checkpoint offset after a checkpoint
SaveAdvance(incr, interval, ts) == incr + interval

\* the global_step a checkpoint is saved under
SaveTag == total_steps

SaveCheckpoint ==
    /\ pc = "save"
    /\ IF IntervalDue(total_steps, save_steps_incr, save_interval)
       THEN /\ save_steps_incr' =
                  SaveAdvance(save_steps_incr, save_interval, total_steps)
            /\ checkpoints' = Append(checkpoints, SaveTag)
       ELSE UNCHANGED <<save_steps_incr, checkpoints>>
    /\ pc' = "epoch_incr"
    /\ UNCHANGED <<cfgVars, ctorVars, reportVars, evalLog, slotVars, statVars,
                   eval_steps_incr, cycle,
                   td_map, epoch, collectVars, batchLog, callLog, trainVars,
                   log_rows, exc>>

\* the epoch counter (the model follows at most MaxEpoch epochs)
EpochIncr ==
    /\ pc = "epoch_incr"
    /\ epoch < MaxEpoch
    /\ epoch' = epoch + 1
    /\ pc' = "epoch_start"
    /\ UNCHANGED <<cfgVars, ctorVars, reportVars, evalLog, slotVars, statVars,
                   eval_steps_incr,
                   save_steps_incr, cycle, td_map, collectVars, batchLog,
                   callLog, trainVars, sinkVars, exc>>

Next ==
    \/ Construct
    \/ LearnWarmup
    \/ CollectBatch
    \/ WarmupDone
    \/ EpochStart
    \/ CycleTop
    \/ TrainEnter
    \/ TrainStep
    \/ TrainReturn
    \/ LogTraining
    \/ Evaluate
    \/ Summary
    \/ SaveCheckpoint
    \/ EpochIncr

\* ------------------------------------------------------------------------
\* Configurations and specifications.
\* ------------------------------------------------------------------------
Cfgs(cp, ro, tr, af, mf, gc, ev, ne, hz, tt, lg, iv, ex, el, ms, ph, fp) ==
    [num_cpus : cp, nb_rollout_steps : ro, nb_train_steps : tr,
     actor_update_freq : af, meta_update_freq : mf, goal_conditioned : gc,
     has_eval_env : ev, nb_eval_episodes : ne, env_horizon : hz,
     total_timesteps : tt,
     log_interval : lg, eval_interval : iv, save_interval : iv,
     initial_exploration_steps : ex, env_len : el,
     env_max_episode_steps : ms, env_params_horizon : ph,
     use_fingerprints : fp]

\* the rollout collector and the loop of learn over every shape of rollout,
\* with the scheduler at the constructor's defaults
RolloutCfgs ==
    Cfgs(1 .. MaxCpus, 1 .. MaxRollout, {1}, {2}, {10}, {FALSE}, BOOLEAN,
         {MaxEvalEpisodes}, 1 .. MaxHorizon, 1 .. MaxTimesteps,
         1 .. MaxLogInterval, {MaxInterval}, 0 .. MaxExplore, 1 .. MaxEnvLen,
         {None}, {None}, {FALSE})

\* the update scheduler over every frequency, with few shapes of rollout
SchedCfgs ==
    Cfgs(1 .. 2, 1 .. 3, 1 .. MaxTrain, 1 .. MaxFreq, 1 .. MaxFreq, BOOLEAN,
         {FALSE}, {MaxEvalEpisodes}, {2}, 1 .. MaxTimesteps + 1,
         1 .. MaxLogInterval, {MaxInterval}, {1}, {2}, {None}, {None}, {FALSE})

Init == InitWith(RolloutCfgs, {<<>>})

Spec == Init /\ [][Next]_vars

InitSched == InitWith(SchedCfgs, {<<>>})

SpecSched == InitSched /\ [][Next]_vars

\* the evaluation and checkpoint phases over every interval, with and without
\* an evaluation environment, and with evaluations of no episode
EvalCfgs ==
    Cfgs(1 .. 2, 1 .. 3, {1}, {2}, {10}, BOOLEAN, BOOLEAN,
         0 .. MaxEvalEpisodes, {2}, 1 .. MaxTimesteps + 2,
         1 .. MaxLogInterval + 1, 1 .. MaxInterval, {1}, {2}, {None}, {None},
         {FALSE})

InitEval == InitWith(EvalCfgs, {<<>>})

SpecEval == InitEval /\ [][Next]_vars

\* construction over every combination of the three horizon attributes of
\* the first environment, each absent or present with a value of its own
HorizonCfgs ==
    Cfgs(1 .. 2, 1 .. 2, {1}, {2}, {10}, {FALSE}, BOOLEAN,
         {MaxEvalEpisodes}, {None, 1}, 1 .. 2, 1 .. MaxLogInterval,
         {MaxInterval}, {1}, {2}, {None, 2}, {None, 3}, {FALSE})

InitHorizon == InitWith(HorizonCfgs, {<<>>})

SpecHorizon == InitHorizon /\ [][Next]_vars

\* the collector with fingerprints off and on
FingerprintCfgs ==
    Cfgs(1 .. 2, 1 .. 2, {1}, {2}, {10}, {FALSE}, {FALSE},
         {MaxEvalEpisodes}, {2}, 1 .. MaxTimesteps, 1 .. MaxLogInterval,
         {MaxInterval}, 0 .. 1, 1 .. 2, {None}, {None}, BOOLEAN)

InitFingerprint == InitWith(FingerprintCfgs, {<<>>})

SpecFingerprint == InitFingerprint /\ [][Next]_vars

\* the success report of an evaluation, over every outcome of up to MaxInfos
\* episodes: is_success absent (None), false (0) or true (1)
InfoSeqs == UNION {[1 .. n -> {None, 0, 1}] : n \in 0 .. MaxInfos}

InitLogEval ==
    InitWith(Cfgs({1}, {1}, {1}, {2}, {10}, {FALSE}, {TRUE},
                  {MaxEvalEpisodes}, {2}, {1}, {1}, {1}, {1}, {2}, {None},
                  {None}, {FALSE}), InfoSeqs)

SpecLogEval == InitLogEval /\ [][LogEvalCall]_vars

\* a run of more than HistoryMaxLen episodes: one environment whose every
\* step ends an episode, in epochs of HistoryMaxLen / 2 cycles
HistoryCfgs ==
    Cfgs({1}, {1}, {1}, {2}, {10}, {FALSE}, {FALSE}, {MaxEvalEpisodes}, {2},
         {HistoryMaxLen + 3}, {HistoryMaxLen \div 2}, {MaxInterval}, 0 .. 1,
         {1}, {None}, {None}, {FALSE})

InitHistory == InitWith(HistoryCfgs, {<<>>})

SpecHistory == InitHistory /\ [][Next]_vars

\* rollouts of five steps on one to four CPUs: the shapes whose last batch
\* is larger than, equal to and smaller than the steps that remain
OvershootCfgs ==
    Cfgs(1 .. 4, {5}, {1}, {2}, {10}, {FALSE}, {FALSE}, {MaxEvalEpisodes},
         {2}, 1 .. MaxTimesteps, {5}, {MaxInterval}, 0 .. 1, {2}, {None},
         {None}, {FALSE})

InitOvershoot == InitWith(OvershootCfgs, {<<>>})

SpecOvershoot == InitOvershoot /\ [][Next]_vars

\* the collector on environments without a contextual term, with a fixed
\* one and with one that changes during the steps
ContextCfgs ==
    Cfgs(1 .. 2, 1 .. 3, {1}, {2}, {10}, {FALSE}, {FALSE}, {MaxEvalEpisodes},
         {2}, 1 .. MaxTimesteps, 1 .. MaxLogInterval, {MaxInterval}, 0 .. 1,
         1 .. 2, {None}, {None}, {FALSE})

InitContext ==
    InitFull(ContextCfgs, {<<>>}, {"none", "fixed", "moving"}, {None})

SpecContext == InitContext /\ [][Next]_vars

\* the evaluation phase with a single evaluation environment and with
\* lists of none, one and two, over every interval
EvalListCfgs ==
    Cfgs({1}, {1}, {1}, {2}, {10}, BOOLEAN, {TRUE}, 0 .. MaxEvalEpisodes,
         {2}, 1 .. MaxTimesteps + 2, 1 .. MaxLogInterval + 1,
         1 .. MaxInterval, {1}, {2}, {None}, {None}, {FALSE})

InitEvalList == InitFull(EvalListCfgs, {<<>>}, {"none"}, {None} \cup 0 .. 2)

SpecEvalList == InitEvalList /\ [][Next]_vars

\* every step of the program is taken when it can be: the run is one thread
\* that neither waits nor yields
FairSpec == Init /\ [][Next]_vars /\ WF_vars(Next)

\* ------------------------------------------------------------------------
\* Properties.
\* ------------------------------------------------------------------------
\* learn has stopped without an exception
Stopped == pc \in {"returned", "broke"}

\* the current call of _collect_samples has run all its batches
CallOver == pc = "collect" /\ itr >= n_itr

\* C1: every batch of _collect_samples is sized at most num_cpus: it steps
\* at most num_cpus environments and uses environment indices in
\* 0 .. num_cpus-1 only.
C1_BatchWithinCpus ==
    /\ n_steps <= num_cpus
    /\ batch_envs \subseteq Range(num_cpus)

\* C2: a call of _collect_samples with run_steps = R >= 1 and num_cpus <= R
\* performs exactly R environment steps, stores exactly R transitions and
\* raises total_steps by exactly R.
C2_ExactlyRunSteps ==
    (CallOver /\ run_steps >= 1 /\ num_cpus <= run_steps) =>
        /\ call_env_steps = run_steps
        /\ call_stored = run_steps
        /\ total_steps - call_ts0 = run_steps

\* C3: with episodes of exactly 2 steps, nb_rollout_steps = 4 and
\* num_cpus = 1, one call of _collect_samples on the fresh object completes
\* with total_steps = 4, episodes = 2 and two epoch episode rewards.
C3_Scenario ==
    /\ num_cpus = 1
    /\ nb_rollout_steps = 4
    /\ env_len = 2
    /\ caller = "warmup"
    /\ run_steps = 4

C3_EndToEnd ==
    C3_Scenario =>
        /\ exc = "none"
        /\ CallOver => /\ total_steps = 4
                       /\ episodes = 2
                       /\ Len(epoch_episode_rewards) = 2

\* C4: the update call of training step t_train carries
\* update_actor = ((total_steps + t_train) % actor_update_freq = 0) and, for
\* a goal-conditioned policy, update_meta and update_meta_actor computed from
\* meta_update_freq and meta_update_freq * actor_update_freq.
C4_UpdateFlags ==
    (pc = "train" /\ n_updates > 0) =>
        LET x == total_steps + (t_train - 1)
        IN  /\ last_update.update_actor = (x % actor_update_freq = 0)
            /\ goal_conditioned =>
                 /\ last_update.has_meta
                 /\ last_update.update_meta = (x % meta_update_freq = 0)
                 /\ last_update.update_meta_actor =
                      (x % (meta_update_freq * actor_update_freq) = 0)

C4_Witness ==
    /\ pc = "train"
    /\ n_updates > 0
    /\ goal_conditioned
    /\ actor_update_freq = 2
    /\ meta_update_freq = 2
    /\ t_train = 2
    /\ last_update.update_meta_actor

\* C5: in every update call for a goal-conditioned policy, update_meta_actor
\* implies update_actor and update_meta.
C5_Closure ==
    (last_update.has_meta /\ last_update.update_meta_actor) =>
        (last_update.update_actor /\ last_update.update_meta)

C5_Witness ==
    /\ updates_total > 0
    /\ last_update.has_meta
    /\ last_update.update_meta_actor
    /\ actor_update_freq > 1
    /\ meta_update_freq > 1

\* C6: each call of _train issues exactly nb_train_steps update calls, one
\* per training step whatever the flags; a flat policy's call carries no
\* meta flags.
C6_CriticEveryStep ==
    /\ pc = "train" => /\ n_updates = t_train
                       /\ updates_total =
                            (train_calls - 1) * nb_train_steps + t_train
    /\ pc # "train" => updates_total = train_calls * nb_train_steps
    /\ ~goal_conditioned => ~last_update.has_meta

C6_Witness ==
    /\ pc = "cycle_top"
    /\ nb_train_steps = 2
    /\ train_calls = 2
    /\ updates_total = 4
    /\ ~goal_conditioned
    /\ ~last_update.update_actor

\* C7: the termination condition is tested at the top of every cycle and
\* learn returns as soon as it holds there, and only there; no cycle starts
\* once it holds, and when learn has stopped every _collect_samples call of
\* the training phase has been followed by a complete _train call.
C7_TopOfCycle ==
    /\ [][ /\ (pc = "cycle_top"
               /\ cycle < NbCycles(log_interval, nb_rollout_steps)
               /\ total_steps >= total_timesteps) => pc' = "returned"
           /\ (pc' = "returned" /\ pc # "returned") =>
                 (pc = "cycle_top" /\ total_steps >= total_timesteps)
           /\ collect_calls' > collect_calls =>
                 (pc = "cycle_top" /\ total_steps < total_timesteps) ]_vars
    /\ [](Stopped => /\ train_calls = collect_calls
                     /\ updates_total = collect_calls * nb_train_steps)

C7_Witness ==
    /\ pc = "returned"
    /\ collect_calls >= 2
    /\ train_calls = collect_calls

\* C8: learn eventually returns, for every configuration with
\* num_cpus <= nb_rollout_steps (or the run is longer than the MaxEpoch
\* epochs the model follows).
C8_LearnReturns ==
    (num_cpus <= nb_rollout_steps) =>
        <>(Stopped \/ (pc = "epoch_incr" /\ epoch >= MaxEpoch))

\* C9: whenever learn stops (returns or leaves its epoch loop) without an
\* exception, total_steps >= total_timesteps.
C9_NoCancellation == Stopped => total_steps >= total_timesteps

\* C9 as amended: when learn returns from its termination check,
\* total_steps >= total_timesteps; it otherwise stops without an exception
\* only at an epoch end at which the policy's td_map is empty.
C9_Amended ==
    /\ pc = "returned" => total_steps >= total_timesteps
    /\ pc = "broke" =>
         /\ td_map = "empty"
         /\ cycle >= NbCycles(log_interval, nb_rollout_steps)

C9_Witness ==
    /\ pc = "returned"
    /\ total_steps > total_timesteps
    /\ collect_calls >= 1

\* C10: every action of the warm-up collection is requested with
\* random_actions = true, no update call is issued before the warm-up
\* collection has finished, and every action of the training cycles is
\* requested with random_actions = false.
C10_WarmupRandom ==
    /\ caller = "warmup" =>
         \A k \in DOMAIN batch_actions : batch_actions[k].random_actions
    /\ (caller \in {"none", "warmup"} /\ pc \in {"new", "constructed",
                                                 "collect", "error"}) =>
         updates_total = 0
    /\ caller = "cycle" =>
         \A k \in DOMAIN batch_actions : ~batch_actions[k].random_actions

C10_Witness ==
    /\ caller = "cycle"
    /\ initial_exploration_steps >= 1
    /\ Len(batch_actions) >= 1
    /\ updates_total > 0

\* C11: the warm-up call of the collector performs exactly
\* initial_exploration_steps environment steps and stores exactly that many
\* transitions, for every initial_exploration_steps >= 0, zero included.
C11_WarmupExact ==
    (CallOver /\ caller = "warmup")
        => /\ call_env_steps = initial_exploration_steps
           /\ call_stored = initial_exploration_steps

\* C12: an epoch whose cycle loop runs to its end has made exactly
\* ceil(log_interval / nb_rollout_steps) cycles of (collect, train).
C12_CeilCycles ==
    (pc = "log") => cycle = Ceil(log_interval, nb_rollout_steps)

\* total_steps at the last epoch end (the last row of the training log)
LastEpochEndSteps ==
    IF log_rows = <<>> THEN 0 ELSE log_rows[Len(log_rows)].steps

\* C13: at an epoch end an evaluation event fires iff an evaluation
\* environment is configured and total_steps minus the evaluation offset is
\* at least eval_interval; the event is one call, and it advances the offset
\* by exactly eval_interval (it does not snap to total_steps); nothing else
\* fires an event or moves the offset.
C13_EvalThreshold ==
    /\ [][pc = "eval" =>
            LET due == /\ has_eval_env
                       /\ total_steps - eval_steps_incr >= eval_interval
            IN  /\ eval_events' = eval_events + (IF due THEN 1 ELSE 0)
                /\ eval_steps_incr' =
                      eval_steps_incr + (IF due THEN eval_interval ELSE 0)]_vars
    /\ [][pc # "eval" =>
            /\ eval_events' = eval_events
            /\ eval_steps_incr' = eval_steps_incr]_vars

\* the second event of a run whose epochs overshoot the interval: the offset
\* is twice the interval, below total_steps
C13_Witness ==
    /\ pc = "summary"
    /\ eval_events = 2
    /\ eval_steps_incr = 2 * eval_interval
    /\ total_steps > eval_steps_incr
    /\ total_steps < eval_steps_incr + eval_interval

C15_CheckpointTrigger ==
    /\ [][pc = "save" =>
            IF total_steps - save_steps_incr >= save_interval
            THEN /\ checkpoints' = Append(checkpoints, total_steps)
                 /\ save_steps_incr' = save_steps_incr + save_interval
            ELSE /\ checkpoints' = checkpoints
                 /\ save_steps_incr' = save_steps_incr]_vars
    /\ [][pc # "save" =>
            /\ checkpoints' = checkpoints
            /\ save_steps_incr' = save_steps_incr]_vars

\* two checkpoints written, the second tagged above the offset
C15_Witness ==
    /\ Len(checkpoints) = 2
    /\ save_steps_incr = 2 * save_interval
    /\ checkpoints[2] = total_steps
    /\ checkpoints[2] > save_steps_incr

\* a step of _collect_samples that applies a whole batch
BatchStep == pc = "collect" /\ itr' = itr + 1

\* the environment of the k-th transition stored by that batch, and whether
\* it reported done on the step
StoredEnv(k) == batch_stores'[k].env_num

StoredDone(k) == EnvDone(env_t[StoredEnv(k)] + 1)

\* how many of the first k transitions of the batch ended an episode
DoneUpTo(k) == Cardinality({j \in 1 .. k : StoredDone(j)})

\* C16: every stored transition has obs0 equal to the slot's observation;
\* when environment i reports done on a step, the transition stored for the
\* step has obs1 equal to the step's terminal observation (not the reset
\* observation), the slot's observation becomes the reset observation,
\* episode_step[i] and episode_reward[i] become zero, the finished episode's
\* reward and length are appended to the epoch accumulators and the history
\* window, and epoch_episodes and episodes each grow by one.
C16_EpisodeBoundary ==
    [][BatchStep =>
         LET n == Len(batch_stores')
             nd == DoneUpTo(n)
         IN  /\ \A k \in 1 .. n :
                   LET i == StoredEnv(k)
                       len1 == episode_step[i] + 1
                       rew1 == episode_reward[i] + EnvReward(env_t[i] + 1)
                   IN  /\ batch_stores'[k].obs0 = obs[i]
                       /\ StoredDone(k) =>
                            /\ batch_stores'[k].obs1 = env_t[i] + 1
                            /\ batch_stores'[k].obs1 # ResetObs
                            /\ obs'[i] = ResetObs
                            /\ episode_step'[i] = 0
                            /\ episode_reward'[i] = 0
                            /\ epoch_episode_steps'[
                                  Len(epoch_episode_steps) + DoneUpTo(k)] = len1
                            /\ epoch_episode_rewards'[
                                  Len(epoch_episode_rewards) + DoneUpTo(k)]
                                  = rew1
                            /\ episode_rew_history'[
                                  Len(episode_rew_history') - nd + DoneUpTo(k)]
                                  = rew1
                       /\ ~StoredDone(k) =>
                            /\ obs'[i] = batch_stores'[k].obs1
                            /\ episode_step'[i] = len1
                            /\ episode_reward'[i] = rew1
             /\ Len(epoch_episode_steps') = Len(epoch_episode_steps) + nd
             /\ Len(epoch_episode_rewards') = Len(epoch_episode_rewards) + nd
             /\ epoch_episodes' = epoch_episodes + nd
             /\ episodes' = episodes + nd]_vars

\* an episode of two steps or more has just ended in slot 0
C16_Witness ==
    /\ env_len >= 2
    /\ pc = "collect"
    /\ \E k \in DOMAIN batch_stores :
          /\ batch_stores[k].env_num = 0
          /\ batch_stores[k].terminal1
          /\ batch_stores[k].obs1 = env_len
    /\ obs[0] = ResetObs
    /\ episode_step[0] = 0
    /\ epoch_episodes >= 1
    /\ epoch_episode_steps[Len(epoch_episode_steps)] = env_len

C19_EvaluateEpisodes ==
    (eval_events >= 1) =>
        /\ exc # "AttributeError"
        /\ eval_resets = nb_eval_episodes
        /\ eval_episodes = nb_eval_episodes

\* C20: every transition stored by _collect_samples is forwarded with
\* evaluate = false, and no transition is stored while _evaluate runs, so
\* none of the stored transitions is an evaluation transition.
C20_EvaluationIsolation ==
    /\ [](\A k \in DOMAIN batch_stores : ~batch_stores[k].evaluate)
    /\ [][pc = "eval" => batch_stores' = batch_stores]_vars

\* a training batch stored after an evaluation event
C20_Witness ==
    /\ eval_events >= 1
    /\ pc = "train"
    /\ caller = "cycle"
    /\ batch_stores # <<>>

\* C21: once _evaluate has been called for a goal-conditioned policy, it has
\* cleared the memory of every training slot 0 .. num_cpus-1 before its
\* first episode and has cleared the memory again after its last episode;
\* for a flat policy it has made no clear_memory call.
C21_ClearAroundEvaluation ==
    (eval_events >= 1) =>
        IF goal_conditioned
        THEN /\ Len(clear_calls) > num_cpus
             /\ \A k \in 1 .. num_cpus : clear_calls[k] = k - 1
        ELSE clear_calls = <<>>

\* C22: an evaluation episode contributes to the success list only if its
\* final info carries an is_success that is not None; the logged success
\* rate is the mean over the contributing episodes, and 0 when none
\* contributed.
C22_SuccessRate ==
    \A r \in DOMAIN eval_rows :
       LET told == {k \in DOMAIN eval_infos : eval_infos[k] # None}
           won == {k \in DOMAIN eval_infos : eval_infos[k] = 1}
           rate == eval_rows[r].success_rate
       IN  IF told = {}
           THEN rate.num = 0
           ELSE rate.num * Cardinality(told) = Cardinality(won) * rate.den

\* a report over episodes of which one is silent, one failed, one succeeded
C22_Witness ==
    /\ eval_rows # <<>>
    /\ \E i, j, k \in DOMAIN eval_infos :
          eval_infos[i] = None /\ eval_infos[j] = 0 /\ eval_infos[k] = 1

\* C23: construction with num_cpus > nb_rollout_steps fails on the check,
\* before any training or evaluation environment is created or touched;
\* with num_cpus <= nb_rollout_steps the check does not raise.
C23_ConstructionCheck ==
    (pc # "new") =>
        /\ (num_cpus > nb_rollout_steps) <=> (exc = "AssertionError")
        /\ (exc = "AssertionError") =>
              /\ pc = "error"
              /\ created = <<>>
              /\ batch_envs = {}
              /\ eval_resets = 0
              /\ \A i \in DOMAIN env_t : env_t[i] = 0

C23_Witness ==
    /\ num_cpus > nb_rollout_steps
    /\ pc = "error"
    /\ exc = "AssertionError"

\* C24: construction that passes the num_cpus check resolves the horizon
\* from the first environment (horizon, else _max_episode_steps, else
\* env_params.horizon), takes 500 when none of them is found, and the
\* resolved horizon is positive.
C24_HorizonResolution ==
    (pc # "new" /\ exc # "AssertionError") =>
        /\ exc # "ValueError"
        /\ horizon = (IF env_horizon # None THEN env_horizon
                      ELSE IF env_max_episode_steps # None
                      THEN env_max_episode_steps
                      ELSE IF env_params_horizon # None
                      THEN env_params_horizon
                      ELSE 500)
        /\ horizon > 0

\* the update calls of the run so far that updated the actor, the
\* meta-critic, the meta-actor
NActor == Cardinality({k \in DOMAIN update_log : update_log[k].update_actor})

NMeta == Cardinality({k \in DOMAIN update_log : update_log[k].update_meta})

NMetaActor ==
    Cardinality({k \in DOMAIN update_log : update_log[k].update_meta_actor})

\* C25: over the sequence of all training steps of learn, exactly one of
\* every actor_update_freq consecutive training steps has update_actor true.
C25_ActorThrottle ==
    \A k \in 1 .. (Len(update_log) - actor_update_freq + 1) :
       Cardinality({j \in k .. (k + actor_update_freq - 1) :
                       update_log[j].update_actor}) = 1

\* C26: over the training steps of a run with a goal-conditioned policy,
\* meta-actor updates are strictly fewer than meta-critic updates (once
\* there is one), and meta-critic updates are no more than actor updates.
C26_RelativeFrequencies ==
    goal_conditioned =>
        /\ (NMeta > 0) => (NMetaActor < NMeta)
        /\ NMeta <= NActor

\* C26, amended: meta-actor updates are never more than meta-critic updates
\* nor more than actor updates; a flat policy has neither meta update.
C26_Amended ==
    /\ NMetaActor <= NMeta
    /\ NMetaActor <= NActor
    /\ ~goal_conditioned => NMeta = 0

\* a run with more meta-critic updates than actor updates, and with
\* meta-actor updates
C26_Witness ==
    /\ goal_conditioned
    /\ NMetaActor >= 1
    /\ NMeta > NActor

\* C27: in an episode that lasts exactly H = horizon steps, the transition
\* stored for the H-th step has is_final_step true and those of all earlier
\* steps have it false (the scripted observation after a step is the number
\* of the step in its episode).
C27_FinalStepAtHorizon ==
    (env_len = horizon) =>
        \A k \in DOMAIN batch_stores :
           batch_stores[k].is_final_step = (batch_stores[k].obs1 = horizon)

\* the number of fingerprints an observation of the run has to carry
FingerprintsDue == IF use_fingerprints THEN 1 ELSE 0

C30_BatchAtomicity ==
    [][(pc = "collect" /\ itr < n_itr) =>
         IF pc' = "error"
         THEN /\ batch_envs' # {}
              /\ batch_stores' = <<>>
              /\ call_stored' = call_stored
              /\ UNCHANGED <<obs, obs_fp, episode_step, episode_reward,
                             statVars>>
         ELSE /\ Len(batch_actions') = Len(batch_stores')
              /\ total_steps' = total_steps + n_steps'
              /\ \A k \in DOMAIN batch_stores' :
                    /\ batch_stores'[k].env_num = k - 1
                    /\ batch_stores'[k].obs0 = obs[k - 1]
                    /\ batch_actions'[k].env_num = k - 1
                    /\ batch_actions'[k].obs = obs[k - 1]
                    /\ batch_actions'[k].steps = total_steps]_vars

\* a batch of two results, applied for environment 0 and then 1
C30_Witness ==
    /\ pc = "collect"
    /\ Len(batch_stores) = 2
    /\ batch_stores[1].env_num = 0
    /\ batch_stores[2].env_num = 1
    /\ total_steps >= 2

\* C31: no policy update call is issued between the first action selection
\* and the last transition store of a _collect_samples call: while the
\* collector runs the count of update calls (the parameter version every
\* action selection of the rollout sees) does not move, and an update call
\* is issued only by _train, after every batch of the rollout was stored.
C31_NoInterleaving ==
    /\ [][(pc = "collect" \/ pc' = "collect") =>
            /\ update_log' = update_log
            /\ updates_total' = updates_total]_vars
    /\ [][(update_log' # update_log \/ updates_total' # updates_total) =>
            /\ pc = "train"
            /\ itr >= n_itr
            /\ call_stored = call_env_steps]_vars

\* the first update after a rollout of two batches, in the second cycle
C31_Witness ==
    /\ pc = "train"
    /\ n_itr >= 2
    /\ n_updates = 1
    /\ train_calls >= 2
    /\ call_stored >= 2

\* learn is in one of the phases that follow the for loop over the cycles
EpochEnd == pc \in {"log", "eval", "summary", "save", "epoch_incr"}

\* the position that follows each of these phases
EpochEndOrder ==
    /\ pc = "log" => pc' = "eval"
    /\ pc = "eval" => pc' \in {"summary", "error"}
    /\ pc = "summary" => pc' \in {"save", "broke"}
    /\ pc = "save" => pc' = "epoch_incr"
    /\ pc = "epoch_incr" => pc' = "epoch_start"

\* C32: a training-log row, an evaluation event, a checkpoint and the step
\* of the epoch counter happen only after the last cycle of the epoch's for
\* loop, with no rollout or training call in progress and without touching
\* what these change, and in the order log, evaluation, checkpoint,
\* epoch + 1; the next cycle starts only after the epoch counter moved.
C32_EpochBoundaryPhases ==
    /\ [][(\/ log_rows' # log_rows
            \/ eval_events' # eval_events
            \/ checkpoints' # checkpoints
            \/ epoch' # epoch) =>
              /\ EpochEnd
              /\ cycle >= NbCycles(log_interval, nb_rollout_steps)
              /\ itr >= n_itr
              /\ train_calls = collect_calls
              /\ updates_total = train_calls * nb_train_steps]_vars
    /\ [][EpochEnd =>
            /\ EpochEndOrder
            /\ UNCHANGED <<slotVars, statVars, batchLog, callLog, trainVars,
                           cycle>>]_vars
    /\ [][/\ log_rows' # log_rows => pc = "log"
          /\ eval_events' # eval_events => pc = "eval"
          /\ checkpoints' # checkpoints => pc = "save"
          /\ epoch' # epoch => (pc = "epoch_incr" /\ epoch' = epoch + 1)
          /\ collect_calls' # collect_calls =>
                (Len(log_rows) = epoch)]_vars

\* a second epoch starts after an epoch end that logged, evaluated and
\* wrote a checkpoint, in an epoch of two cycles
C32_Witness ==
    /\ pc = "epoch_start"
    /\ epoch = 1
    /\ Len(log_rows) = 1
    /\ eval_events = 1
    /\ Len(checkpoints) = 1
    /\ cycle = 2

\* the current epoch has written its training-log row and has not yet
\* stepped the epoch counter
RowWritten ==
    \/ pc \in {"eval", "summary", "save", "epoch_incr", "broke"}
    \/ pc = "error" /\ exc = "AttributeError"

\* C33: _log_training writes exactly one row for every epoch whose cycles
\* all ran and none for an epoch that did not get there; row k carries the
\* epoch index k (the epoch counter + 1 at the time of the row); the epoch
\* counter is the number of epochs whose log, evaluation and checkpoint
\* phases are all done.
C33_OneRowPerEpoch ==
    /\ \A k \in DOMAIN log_rows : log_rows[k].epochs = k
    /\ Len(log_rows) = epoch + (IF RowWritten THEN 1 ELSE 0)
    /\ epoch >= 0

\* learn returned in its third epoch, after two complete ones
C33_Witness ==
    /\ pc = "returned"
    /\ epoch = 2
    /\ Len(log_rows) = 2
    /\ log_rows[2].epochs = 2
    /\ log_rows[2].steps = total_steps

\* C34: a call of _evaluate, whether it returns or raises, changes none of
\* total_steps, episodes, epoch, epoch_episodes, epoch_episode_rewards,
\* epoch_episode_steps, episode_rew_history, the per-slot episode_step and
\* episode_reward, and the per-slot training observations.
C34_EvaluationFrame ==
    [][(pc = "eval" \/ eval_events' # eval_events) =>
         UNCHANGED <<total_steps, episodes, epoch, epoch_episodes,
                     epoch_episode_rewards, epoch_episode_steps,
                     episode_rew_history, episode_step, episode_reward,
                     obs, obs_fp>>]_vars

\* an evaluation returned in the middle of a training episode of slot 0
C34_Witness ==
    /\ pc = "summary"
    /\ eval_events >= 1
    /\ obs[0] # ResetObs
    /\ episode_step[0] >= 1
    /\ episodes >= 1
    /\ epoch_episode_rewards # <<>>

\* learn is past the reset of the statistics that follows the warm-up
TrainingPhase ==
    /\ pc \notin {"new", "constructed"}
    /\ ~(pc \in {"collect", "error"} /\ caller \in {"none", "warmup"})

\* the last n entries of the sequence q (all of it when it has fewer)
LastOf(q, n) ==
    IF Len(q) <= n THEN q ELSE SubSeq(q, Len(q) - n + 1, Len(q))

\* the rewards of the episodes completed by the batch of this step, in
\* completion order
BatchRewards ==
    SubSeq(epoch_episode_rewards', Len(epoch_episode_rewards) + 1,
           Len(epoch_episode_rewards'))

C36_AccumulatorLengths ==
    /\ Len(epoch_episode_rewards) = epoch_episodes
    /\ Len(epoch_episode_steps) = epoch_episodes
    /\ (TrainingPhase /\ ~(pc = "epoch_start" /\ epoch = 0)) =>
          epoch_episodes <= episodes

\* between two batches of a rollout of the second epoch, with an episode
\* finished in this epoch and more in the run
C36_Witness ==
    /\ pc = "collect"
    /\ caller = "cycle"
    /\ itr >= 1
    /\ itr < n_itr
    /\ epoch >= 1
    /\ epoch_episodes >= 1
    /\ epoch_episodes < episodes

\* C37: when learn returns from its termination check,
\* total_timesteps <= total_steps < total_timesteps + nb_rollout_steps;
\* total_steps never decreases during the training phase.
C37_BoundedOvershoot ==
    /\ [](pc = "returned" =>
            /\ total_timesteps <= total_steps
            /\ total_steps < total_timesteps + nb_rollout_steps)
    /\ [][TrainingPhase => total_steps' >= total_steps]_vars

\* C38: between batches, episode_step[i] is the number of steps environment
\* i took since its last reset (construction or done), also across the
\* boundary between warm-up and training; when the environments report done
\* within horizon steps of a reset, 0 <= episode_step[i] < horizon and
\* every entry of epoch_episode_steps is in 1 .. horizon.
C38_EpisodeStepCounts ==
    (exc # "IndexError") =>
        /\ \A i \in DOMAIN episode_step : episode_step[i] = env_t[i]
        /\ (pc # "new" /\ env_len <= horizon) =>
              /\ \A i \in DOMAIN episode_step :
                    episode_step[i] >= 0 /\ episode_step[i] < horizon
              /\ \A k \in DOMAIN epoch_episode_steps :
                    epoch_episode_steps[k] \in 1 .. horizon

\* an episode that began in the warm-up ended in training, with more steps
\* than training had taken
C38_Witness ==
    /\ caller = "cycle"
    /\ pc = "collect"
    /\ env_len <= horizon
    /\ epoch_episode_steps # <<>>
    /\ epoch_episode_steps[1] > total_steps
    /\ epoch_episode_steps[1] = horizon

\* C40: every stored training transition has context0 equal to the
\* contextual term its action was selected under (the environment's
\* context before the step) and context1 equal to the environment's context
\* after the step, also when the context changes during the step.
C40_ContextPairing ==
    [][BatchStep =>
         \A k \in DOMAIN batch_stores' :
            /\ batch_stores'[k].context0 = batch_actions'[k].context
            /\ batch_stores'[k].context0 = EnvContext(env_t[StoredEnv(k)])
            /\ batch_stores'[k].context1 =
                  EnvContext(env_t[StoredEnv(k)] + 1)]_vars

\* C39: at every epoch boundary the evaluation offset is eval_interval
\* times the number of evaluation events so far (a non-negative multiple of
\* eval_interval) and is at most total_steps; the events never outnumber
\* the epoch ends; an event calls _evaluate on the configured evaluation
\* environments in list order, on every one of them when it returns.
C39_EvalOffset ==
    /\ eval_steps_incr = eval_interval * eval_events
    /\ eval_steps_incr >= 0
    /\ eval_steps_incr % eval_interval = 0
    /\ eval_events <= Len(log_rows)
    /\ (EpochEnd \/ pc \in {"epoch_start", "cycle_top"}) =>
          eval_steps_incr <= total_steps
    /\ \A k \in DOMAIN eval_calls :
          eval_calls[k] = (IF eval_env_list = None THEN None ELSE k - 1)
    /\ (eval_events >= 1 /\ pc # "error") =>
          Len(eval_calls) = (IF eval_env_list = None THEN 1
                             ELSE eval_env_list)

\* the second event of a run with a list of two evaluation environments,
\* the offset below total_steps
C39_Witness ==
    /\ pc = "epoch_incr"
    /\ eval_events = 2
    /\ eval_calls = <<0, 1>>
    /\ eval_steps_incr = 2 * eval_interval
    /\ eval_steps_incr < total_steps
====
